---- MODULE Spec2Model ----
(***************************************************************************)
(* Hierarchical retriever: two-stage retrieval (app/retrievers.py) over a  *)
(* vector store holding document-level and chunk-level records, and the    *)
(* ingestion pipeline (app/embeddings.py) that writes those records.       *)
(***************************************************************************)
EXTENDS Integers, Sequences, FiniteSets, TLC

\* ------------------------------------------------------------------ bounds
MaxNDocs == 2
MaxNChunks == 2
\* process_document calls (queued tasks) a run may hold
MaxCalls == 2

\* --------------------------------------------------------------- constants
\* metadata.get(key) of an absent key, and Python's None
NoneVal == "None"

\* a record without chunk_index, a hit without score
NoIndex == -1
NoScore == -1

Queries == {"q1", "q2"}

HierCollection == "hierarchical_documents"
DocCollection == "doc_level_embeddings"
ChunkCollection == "chunk_level_embeddings"
\* the one store a patched get_vector_store returns for every name
MockCollection == "mock_vector_store"
Collections == {HierCollection, DocCollection, ChunkCollection, MockCollection}

\* Records a store may hold: id, metadata (type, source, chunk_index), a
\* base distance to the query, the length of the text and the content the
\* text was read from (0: content that no upload of the run wrote).  Sources cover a named document twice (the
\* same source under two summaries), a second document, an absent source
\* and an empty one.
SummaryRecords ==
  { [id |-> 1, type |-> "summary", source |-> "a.txt", chunk_index |-> NoIndex, dist |-> 1, len |-> 10, text |-> 0],
    [id |-> 2, type |-> "summary", source |-> "b.txt", chunk_index |-> NoIndex, dist |-> 2, len |-> 10, text |-> 0],
    [id |-> 3, type |-> "summary", source |-> "a.txt", chunk_index |-> NoIndex, dist |-> 3, len |-> 10, text |-> 0],
    [id |-> 4, type |-> "summary", source |-> NoneVal, chunk_index |-> NoIndex, dist |-> 2, len |-> 10, text |-> 0],
    [id |-> 5, type |-> "summary", source |-> "",      chunk_index |-> NoIndex, dist |-> 4, len |-> 10, text |-> 0] }

ChunkRecords ==
  { [id |-> 6, type |-> "chunk", source |-> "a.txt", chunk_index |-> 0, dist |-> 5, len |-> 10, text |-> 0],
    [id |-> 7, type |-> "chunk", source |-> "a.txt", chunk_index |-> 1, dist |-> 4, len |-> 10, text |-> 0],
    [id |-> 8, type |-> "chunk", source |-> "b.txt", chunk_index |-> 0, dist |-> 2, len |-> 10, text |-> 0],
    [id |-> 9, type |-> "chunk", source |-> NoneVal, chunk_index |-> 0, dist |-> 3, len |-> 10, text |-> 0] }

Universe == SummaryRecords \cup ChunkRecords

MaxDist == 6

VARIABLES
  store,            \* collection name -> set of records held
  shareObjects,     \* TRUE: a search hands back the stored object itself
  variant,          \* "metadata" | "legacy": which retriever class
  n_docs,           \* self.n_docs
  n_chunks,         \* self.n_chunks_per_doc / self.n_chunks
  pc,               \* position of the retrieval call
  mode,             \* "scored" | "simple": which accessor was called
  query,            \* the call's query
  calls,            \* store calls issued by the call, in order
  summaries,        \* coarse hits
  i,                \* index of the coarse hit the loop is at
  relevant_chunks,  \* the list being built
  parent_score,     \* object -> metadata["parent_summary_score"]
  fineLog,          \* per coarse hit: was a fine search made, what it returned
  result,           \* value returned to the caller
  handles,          \* the stores the retriever was built over: self.vector_store,
                    \* self.doc_store, self.chunk_store
  search_failed,    \* the store raised on a search of the retrieval call
  request,          \* the query_documents request: k, query, phase, entries rendered
  factory,          \* "repo": app.vectorstore.get_vector_store; "patched", "named": doubles
  proc,             \* per process_document call: file_path (the argument), file (as
                    \* validate_file finds it), ipc (position), documents (what
                    \* loader.load() returned), writes (add_documents calls made, in
                    \* order), outcome (what the call returned or raised)
  disk,             \* path in UPLOAD_DIR -> the upload whose bytes the file holds,
                    \* Truncated for a file opened and not yet written, 0 for none
  recon             \* what reconstruct_document returned

\* what a retrieval call leaves as it is
retrFixed == <<shareObjects, variant, n_docs, n_chunks, handles, search_failed, request>>
retrVars == <<retrFixed, pc, mode, query,
              calls, summaries, i, relevant_chunks, parent_score, fineLog, result>>
ingVars == <<factory, proc, disk, recon>>
vars == <<store, retrVars, ingVars>>

Calls == 1..MaxCalls

\* The first call: the one the single-call specifications run.
file == proc[1].file
ipc == proc[1].ipc
documents == proc[1].documents
writes == proc[1].writes
outcome == proc[1].outcome

\* ------------------------------------------------------- the vector store
\* Distance of a record to a query: a store ranks by it, ascending.
Dist(r, q) == IF q = "q1" THEN r.dist ELSE MaxDist - r.dist

\* A filter is a set of <<field, value>> equality predicates.
Matches(r, filter) == \A p \in filter : r[p[1]] = p[2]

\* The orders a store may give the records of T in: ascending by distance,
\* records at the same distance in any order.
RECURSIVE RankedOrders(_, _)
RankedOrders(T, q) ==
  IF T = {} THEN {<<>>}
  ELSE LET nearest == { r \in T : \A o \in T : Dist(r, q) <= Dist(o, q) }
       IN UNION { { <<m>> \o rest : rest \in RankedOrders(T \ {m}, q) } : m \in nearest }

\* The object a search hands back for a record: the stored object itself,
\* or a fresh one built for this search (tag = number of the search).
ObjOf(r, share, searchNo) == [rec |-> r, cp |-> IF share THEN 0 ELSE searchNo]

\* Every answer a store may give to similarity_search_with_score(query, k,
\* filter): at most k records, all matching the filter, ascending by
\* distance, each with its distance.
SearchWithScore(content, q, k, filter, share, searchNo) ==
  { [j \in 1..Len(sq) |-> [doc |-> ObjOf(sq[j], share, searchNo), score |-> Dist(sq[j], q)]] :
      sq \in UNION { RankedOrders(T, q) : T \in { X \in SUBSET { r \in content : Matches(r, filter) } :
                                                    Cardinality(X) <= k } } }

\* similarity_search(query, k, filter): the same, without the scores.
Search(content, q, k, filter, share, searchNo) ==
  { [j \in 1..Len(h) |-> [doc |-> h[j].doc, score |-> NoScore]] :
      h \in SearchWithScore(content, q, k, filter, share, searchNo) }

StoreCall(name, method, q, k, filter) ==
  [store |-> name, method |-> method, query |-> q, k |-> k, filter |-> filter]

\* ---------------------------------------------------------- validate_file
max_size_mb == 50
max_size_bytes == max_size_mb * 1024 * 1024

\* mutant: .docx is let through as well
allowed_extensions_wider == {".txt", ".md", ".pdf", ".docx"}

allowed_extensions == {".txt", ".md", ".pdf"}

expected_mimes ==
  [e \in allowed_extensions |->
     IF e = ".txt" THEN {"text/plain", "text/x-plain"}
     ELSE IF e = ".md" THEN {"text/plain", "text/markdown", "text/x-markdown"}
     ELSE {"application/pdf"}]

suspicious_patterns == {"..", "~", "$", "BACKTICK", "|", ";", "&", "NUL"}

\* File names the model draws from: name, path as passed, suffix.lower(),
\* and which of the suspicious patterns occur in str(path).
NameTable ==
  { [name |-> "test.txt",  path |-> "uploads/test.txt",  ext |-> ".txt",  tokens |-> {}],
    [name |-> "test.md",   path |-> "uploads/test.md",   ext |-> ".md",   tokens |-> {}],
    [name |-> "test.pdf",  path |-> "uploads/test.pdf",  ext |-> ".pdf",  tokens |-> {}],
    [name |-> "test.docx", path |-> "uploads/test.docx", ext |-> ".docx", tokens |-> {}],
    [name |-> "evil;rm -rf.txt", path |-> "uploads/evil;rm -rf.txt", ext |-> ".txt",
     tokens |-> {";"}] }

FileSizes == {0, 70, 1200, max_size_bytes, max_size_bytes + 1, max_size_bytes + 2,
              max_size_bytes + 1048575}

\* What magic.from_file gives: a type, or "error" when sniffing is unavailable
\* or fails.
Sniffs == {"text/plain", "application/pdf", "error"}

Files ==
  { [name |-> n.name, path |-> n.path, ext |-> n.ext, tokens |-> n.tokens,
     exists |-> ex, is_file |-> isf, size |-> sz, sniff |-> sn, readable |-> rd] :
      n \in NameTable, ex \in BOOLEAN, isf \in BOOLEAN, sz \in FileSizes,
      sn \in Sniffs, rd \in BOOLEAN }

NoFile == [name |-> "", path |-> "", ext |-> "", tokens |-> {}, exists |-> FALSE,
           is_file |-> FALSE, size |-> 0, sniff |-> "error", readable |-> FALSE]

\* os.path.join(UPLOAD_DIR, file.filename), for the names of the table
Paths == { n.path : n \in NameTable }

Invalid(msg) == [valid |-> FALSE, error |-> msg]

\* mutant: the size limit is exclusive
SizeCheckExclusive(size) ==
  IF size = 0 THEN "empty" ELSE IF size >= max_size_bytes THEN "too_large" ELSE "ok"

\* if file_size == 0 / if file_size > max_size_bytes
SizeCheck(size) ==
  IF size = 0 THEN "empty" ELSE IF size > max_size_bytes THEN "too_large" ELSE "ok"

BytesPerMb == 1024 * 1024

\* mutant: the size in MB is cut to two decimals, not rounded
MbHundredthsTruncated(size) ==
  (size \div BytesPerMb) * 100 + ((size % BytesPerMb) * 100) \div BytesPerMb

\* f"{file_size / 1024 / 1024:.2f}": the size in MB rounded to two decimals
\* (half to even), as a number of hundredths of a MB.
MbHundredths(size) ==
  LET x == (size % BytesPerMb) * 100
      q == x \div BytesPerMb
      r == x % BytesPerMb
      up == IF 2 * r > BytesPerMb THEN 1
            ELSE IF 2 * r < BytesPerMb THEN 0
            ELSE q % 2
  IN (size \div BytesPerMb) * 100 + q + up

\* FileValidationError(f"File too large: {...:.2f}MB (max: {max_size_mb}MB)")
TooLarge(f) ==
  [valid |-> FALSE, error |-> "File too large",
   reported_mb_x100 |-> MbHundredths(f.size), max_mb |-> max_size_mb]

\* The try block around the MIME check: a mismatch raises FileValidationError
\* inside the try, the except clause catches it as it catches a sniffing
\* failure, and validation goes on with a warning.
MimeCheck(f) ==
  IF f.sniff = "error" THEN "warning"
  ELSE IF f.sniff \notin expected_mimes[f.ext] THEN "warning"
  ELSE "pass"

\* mime_type as left by the try block
MimeType(f) == IF f.sniff = "error" THEN "unknown" ELSE f.sniff

validate_file(f) ==
  IF ~f.exists THEN Invalid("File does not exist")
  ELSE IF ~f.is_file THEN Invalid("Path is not a file")
  ELSE IF SizeCheck(f.size) = "empty" THEN Invalid("File is empty")
  ELSE IF SizeCheck(f.size) = "too_large" THEN TooLarge(f)
  ELSE IF f.ext \notin allowed_extensions THEN Invalid("Unsupported file type")
  ELSE IF MimeCheck(f) = "fail" THEN Invalid("MIME type mismatch")
  ELSE IF f.tokens \cap suspicious_patterns # {}
       THEN Invalid("Suspicious characters detected in file path")
  ELSE IF ~f.readable THEN Invalid("File is not readable")
  ELSE [valid |-> TRUE, file_path |-> f.path, file_name |-> f.name,
        file_size_bytes |-> f.size, file_extension |-> f.ext, mime_type |-> MimeType(f)]

\* ------------------------------------------------------- process_document
chunk_size == 500
chunk_overlap == 50

\* Text lengths a loaded document may have.
TextLens == {0, 70, 1000, 1200}

\* What loader.load() may give: the text lengths of the documents, one per
\* document (a PDF gives one per page).
LoaderOutcomes == { <<l>> : l \in TextLens } \cup {<<70, 1200>>}

\* Content of a file that open(file_path, "wb") has truncated and that no
\* byte has been written to yet.
Truncated == -1

\* Bytes a file holding content c has: none when truncated; otherwise the
\* bytes upload request c sent, the first a 1,200-character text, the others
\* a 70-character one.
UploadedBytes(c) == IF c = Truncated THEN 0 ELSE IF c = 1 THEN 1200 ELSE 70

\* What loader.load() may give for a file holding content c: for a file an
\* upload opened or wrote, TextLoader gives one document with the whole
\* text, the empty text for a truncated file.
LoaderOutcomesFor(c) == IF c = 0 THEN LoaderOutcomes ELSE {<<UploadedBytes(c)>>}

\* Start offsets of the chunks RecursiveCharacterTextSplitter cuts from a
\* text of length n without separators: windows of chunk_size, each
\* starting chunk_overlap before the end of the one before.
RECURSIVE ChunkStarts(_, _)
ChunkStarts(from, n) ==
  IF n = 0 THEN <<>>
  ELSE IF n - from <= chunk_size THEN <<from>>
  ELSE <<from>> \o ChunkStarts(from + chunk_size - chunk_overlap, n)

\* mutant: the record id is derived from the document alone, so that adding
\* the same document again replaces the record
LoadedDocSameId(p, f, k, n, c) ==
  [id |-> 100 + k, type |-> NoneVal, source |-> f.path, chunk_index |-> NoIndex,
   dist |-> 3, len |-> n, text |-> c]

\* Document k as the loader of call p builds it: metadata = {source:
\* file_path}; the store gives every record it adds an id of its own.
LoadedDoc(p, f, k, n, c) ==
  [id |-> 100 * p + k, type |-> NoneVal, source |-> f.path, chunk_index |-> NoIndex,
   dist |-> 3, len |-> n, text |-> c]

\* splitter.split_documents(documents): each chunk copies its document's
\* metadata.
RECURSIVE split_documents(_)
split_documents(docs) ==
  IF docs = <<>> THEN <<>>
  ELSE LET d == docs[1]
           st == ChunkStarts(0, d.len)
       IN [j \in 1..Len(st) |->
             [id |-> d.id * 10 + j, type |-> d.type, source |-> d.source,
              chunk_index |-> d.chunk_index, dist |-> d.dist,
              len |-> IF d.len - st[j] <= chunk_size THEN d.len - st[j] ELSE chunk_size,
              text |-> d.text]]
          \o split_documents(Tail(docs))

Range(sq) == { sq[j] : j \in 1..Len(sq) }

\* get_vector_store as process_document calls it, with a collection name:
\* the function of app/vectorstore.py takes no argument, so the call raises
\* TypeError; a patched one returns the same store for every name, as the
\* return_value doubles of the tests do ("patched"), or the store of the
\* collection it is asked for ("named").
get_vector_store(fac, name) ==
  IF fac = "repo" THEN [ok |-> FALSE, error |-> "TypeError"]
  ELSE IF fac = "named" THEN [ok |-> TRUE, store |-> name]
  ELSE [ok |-> TRUE, store |-> MockCollection]

\* get_vector_store(): the store of collection "documents"
get_vector_store_default == [ok |-> TRUE, store |-> "documents"]

WriteCall(name, arg, records, ok) ==
  [store |-> name, arg |-> arg, records |-> records, ok |-> ok]

Raise(err, msg) == [kind |-> "raise", error |-> err, msg |-> msg]

\* the FileValidationError validate_file raised, with what its message says
RaiseValidation(v) ==
  [kind |-> "raise", error |-> "FileValidationError", msg |-> v.error, detail |-> v]

\* mime.from_file on a file that holds content c when libmagic reads its
\* size and content d when libmagic reads its bytes: the type of an empty
\* file for a file found truncated, the type of empty data when the file was
\* truncated between the two reads, plain text for the bytes of an upload.
SniffOf(c, d) ==
  IF c = Truncated THEN "inode/x-empty"
  ELSE IF d = Truncated THEN "application/x-empty"
  ELSE "text/plain"

\* The file at a path of UPLOAD_DIR as validate_file finds it when the
\* path holds content c at every read.
StatFile(path, c) ==
  LET n == CHOOSE n \in NameTable : n.path = path
  IN [name |-> n.name, path |-> n.path, ext |-> n.ext, tokens |-> n.tokens,
      exists |-> TRUE, is_file |-> TRUE, size |-> UploadedBytes(c), sniff |-> SniffOf(c, c),
      readable |-> TRUE]

\* validate_file gets as far as the MIME check: the checks of existence,
\* size and extension raised nothing.
ReachesMimeCheck(f) ==
  /\ f.exists /\ f.is_file
  /\ SizeCheck(f.size) = "ok"
  /\ f.ext \in allowed_extensions

\* A call that has not been made.
IdleCall ==
  [file_path |-> "", file |-> NoFile, ipc |-> "idle", sniffed |-> 0, documents |-> <<>>,
   writes |-> <<>>, outcome |-> [kind |-> "none"]]

\* ------------------------------------------- upload_file, process_file_task
\* Names upload requests carry.
UploadNames == { n \in NameTable : n.name \in {"test.txt", "test.docx"} }

\* upload_file, first step: request p opens os.path.join(UPLOAD_DIR,
\* file.filename) with mode "wb", which truncates whatever the path held.
\* The handler is a coroutine without an await, so no other upload request
\* is between its steps; workers are other processes and run at any time.
upload_file(p, nm) ==
  /\ proc[p].ipc = "idle"
  /\ \A o \in Calls : proc[o].ipc \notin {"opened", "copied"}
  /\ disk' = [disk EXCEPT ![nm.path] = Truncated]
  /\ proc' = [proc EXCEPT ![p].ipc = "opened", ![p].file_path = nm.path]
  /\ UNCHANGED <<store, retrVars, factory, recon>>

\* upload_file, second step: shutil.copyfileobj writes the bytes of request
\* p and the file is closed.
upload_file_copy(p) ==
  /\ proc[p].ipc = "opened"
  /\ disk' = [disk EXCEPT ![proc[p].file_path] = p]
  /\ proc' = [proc EXCEPT ![p].ipc = "copied"]
  /\ UNCHANGED <<store, retrVars, factory, recon>>

\* upload_file, third step: process_file_task.delay(file_path) queues the
\* task on the path.
upload_file_delay(p) ==
  /\ proc[p].ipc = "copied"
  /\ proc' = [proc EXCEPT ![p].ipc = "queued"]
  /\ UNCHANGED <<store, retrVars, factory, disk, recon>>

\* A worker takes the task: process_document(file_path) is entered and
\* validate_file reads existence and size of the file the path holds now.
\* When these checks and the extension check pass, the MIME check reads the
\* file again, in a step of its own.
process_file_task(p) ==
  /\ proc[p].ipc = "queued"
  /\ LET f == StatFile(proc[p].file_path, disk[proc[p].file_path])
     IN proc' = [proc EXCEPT ![p].ipc = IF ReachesMimeCheck(f) THEN "sniff" ELSE "start",
                             ![p].file = f]
  /\ UNCHANGED <<store, retrVars, factory, disk, recon>>

\* validate_file, the MIME check, first read: mime.from_file looks at the
\* size of the file the path holds by now, which an upload may have
\* truncated or rewritten since validate_file read the size.  An empty file
\* is answered at once; otherwise libmagic goes on to read the bytes.
validate_file_sniff(p) ==
  /\ proc[p].ipc = "sniff"
  /\ LET c == disk[proc[p].file_path]
     IN IF c = Truncated
        THEN proc' = [proc EXCEPT ![p].ipc = "start", ![p].file.sniff = SniffOf(c, c)]
        ELSE proc' = [proc EXCEPT ![p].ipc = "sniff_read", ![p].sniffed = c]
  /\ UNCHANGED <<store, retrVars, factory, disk, recon>>

\* validate_file, the MIME check, second read: libmagic reads the bytes the
\* file holds by now.  os.access, the last read of validate_file, does not
\* depend on the content.
validate_file_sniff_read(p) ==
  /\ proc[p].ipc = "sniff_read"
  /\ proc' = [proc EXCEPT ![p].ipc = "start",
                          ![p].file.sniff = SniffOf(proc[p].sniffed, disk[proc[p].file_path])]
  /\ UNCHANGED <<store, retrVars, factory, disk, recon>>

\* --------------------------------------------- process_document, the steps
\* mutant: the failed validation is returned as a result and the call goes on
PdValidateFailIgnored(p) ==
  /\ proc[p].ipc = "start"
  /\ ~validate_file(proc[p].file).valid
  /\ IF get_vector_store(factory, DocCollection).ok
     THEN proc' = [proc EXCEPT ![p].ipc = "load"]
     ELSE proc' = [proc EXCEPT ![p].ipc = "done",
                               ![p].outcome = [kind |-> "return",
                                               value |-> [error |-> validate_file(proc[p].file).error]]]
  /\ UNCHANGED <<store, retrVars, factory, disk, recon>>

\* validate_file raises: process_document ends with FileValidationError.
PdValidateFail(p) ==
  /\ proc[p].ipc = "start"
  /\ ~validate_file(proc[p].file).valid
  /\ proc' = [proc EXCEPT ![p].ipc = "done",
                          ![p].outcome = RaiseValidation(validate_file(proc[p].file))]
  /\ UNCHANGED <<store, retrVars, factory, disk, recon>>

\* validate_file passes and the two get_vector_store calls are made.
PdGetStores(p) ==
  /\ proc[p].ipc = "start"
  /\ validate_file(proc[p].file).valid
  /\ IF get_vector_store(factory, DocCollection).ok /\ get_vector_store(factory, ChunkCollection).ok
     THEN proc' = [proc EXCEPT ![p].ipc = "load"]
     ELSE proc' = [proc EXCEPT ![p].ipc = "done",
                               ![p].outcome = Raise("TypeError",
                                                    "get_vector_store() takes 0 positional arguments")]
  /\ UNCHANGED <<store, retrVars, factory, disk, recon>>

\* documents = loader.load(): the loader reads what the file holds now
PdLoad(p) ==
  /\ proc[p].ipc = "load"
  /\ \E out \in LoaderOutcomesFor(disk[proc[p].file.path]) :
        proc' = [proc EXCEPT ![p].ipc = "write_docs",
                             ![p].documents =
                                [k \in 1..Len(out) |->
                                   LoadedDoc(p, proc[p].file, k, out[k], disk[proc[p].file.path])]]
  /\ UNCHANGED <<store, retrVars, factory, disk, recon>>

\* loader.load() raises
PdLoadFail(p) ==
  /\ proc[p].ipc = "load"
  /\ proc' = [proc EXCEPT ![p].ipc = "done",
                          ![p].outcome = Raise("LoadError", "loader.load() raised")]
  /\ UNCHANGED <<store, retrVars, factory, disk, recon>>

\* mutant: the document-level write is left out
PdWriteDocsSkipped(p) ==
  /\ proc[p].ipc = "write_docs"
  /\ proc' = [proc EXCEPT ![p].ipc = "write_chunks"]
  /\ UNCHANGED <<store, retrVars, factory, disk, recon>>

\* doc_store.add_documents(documents)
PdWriteDocs(p) ==
  /\ proc[p].ipc = "write_docs"
  /\ LET ds == get_vector_store(factory, DocCollection).store
     IN /\ store' = [store EXCEPT ![ds] = @ \cup Range(proc[p].documents)]
        /\ proc' = [proc EXCEPT ![p].ipc = "write_chunks",
                                ![p].writes = Append(@, WriteCall(ds, "documents",
                                                                  proc[p].documents, TRUE))]
  /\ UNCHANGED <<retrVars, factory, disk, recon>>

\* doc_store.add_documents(documents) raises: the store's exception leaves
\* process_document as it is
PdWriteDocsFail(p) ==
  /\ proc[p].ipc = "write_docs"
  /\ proc' = [proc EXCEPT ![p].ipc = "done",
                          ![p].writes = Append(@, WriteCall(get_vector_store(factory, DocCollection).store,
                                                            "documents", proc[p].documents, FALSE)),
                          ![p].outcome = Raise("StoreWriteError", "add_documents raised")]
  /\ UNCHANGED <<store, retrVars, factory, disk, recon>>

\* The documents are split, chunk_store.add_documents(split_documents) is
\* made and the result is returned.
PdWriteChunks(p) ==
  /\ proc[p].ipc = "write_chunks"
  /\ LET cs == get_vector_store(factory, ChunkCollection).store
         sd == split_documents(proc[p].documents)
     IN /\ store' = [store EXCEPT ![cs] = @ \cup Range(sd)]
        /\ proc' = [proc EXCEPT
                      ![p].ipc = "done",
                      ![p].writes = Append(@, WriteCall(cs, "split_documents", sd, TRUE)),
                      ![p].outcome =
                         [kind |-> "return",
                          value |-> [num_chunks |-> Len(sd),
                                     file_type |-> proc[p].file.ext,
                                     file_info |-> validate_file(proc[p].file),
                                     message |-> "Documents processed and stored successfully"]]]
  /\ UNCHANGED <<retrVars, factory, disk, recon>>

\* chunk_store.add_documents(split_documents) raises: the store's exception
\* leaves process_document as it is
PdWriteChunksFail(p) ==
  /\ proc[p].ipc = "write_chunks"
  /\ proc' = [proc EXCEPT ![p].ipc = "done",
                          ![p].writes = Append(@, WriteCall(get_vector_store(factory, ChunkCollection).store,
                                                            "split_documents",
                                                            split_documents(proc[p].documents), FALSE)),
                          ![p].outcome = Raise("StoreWriteError", "add_documents raised")]
  /\ UNCHANGED <<store, retrVars, factory, disk, recon>>

\* ------------------------------------------ MetadataHierarchicalRetriever
\* mutant: the coarse search without its type filter
CoarseFilterNone == {}

CoarseFilter == {<<"type", "summary">>}

\* mutant: the fine search not scoped to the document
FineFilterNoSource(doc_id) == {<<"type", "chunk">>}

FineFilter(doc_id) == {<<"source", doc_id>>, <<"type", "chunk">>}

\* summary_doc.metadata.get("source")
DocId(hit) == hit.doc.rec.source

\* mutant: only None is skipped, an empty source is searched
UsableNotNone(doc_id) == doc_id # NoneVal

\* if doc_id:
Usable(doc_id) == doc_id # NoneVal /\ doc_id # ""

\* chunk_doc.metadata["parent_summary_score"] = summary_score, for each hit
Annotate(ps, hits, summary_score) ==
  LET new == { hits[j].doc : j \in 1..Len(hits) }
  IN [o \in (DOMAIN ps) \cup new |-> IF o \in new THEN summary_score ELSE ps[o]]

\* mutant: the hits go to the front of the list
PrependAll(list, hits) == hits \o list

\* relevant_chunks.append((chunk_doc, chunk_score)), for each hit in order
AppendAll(list, hits) == list \o hits

\* mutant: the pairs are returned as they are
KeepScores(list) == list

\* [doc for doc, score in chunks_with_scores]
StripScores(list) == [j \in 1..Len(list) |-> list[j].doc]

EmptyFun == [o \in {} |-> 0]

\* get_relevant_documents / get_relevant_documents_simple is entered and the
\* coarse search is made.
MetaCoarse(q, m) ==
  /\ pc = "idle" /\ variant = "metadata"
  /\ query' = q /\ mode' = m
  /\ calls' = <<StoreCall(handles.vector_store, "similarity_search_with_score", q, n_docs, CoarseFilter)>>
  /\ summaries' \in SearchWithScore(store[handles.vector_store], q, n_docs, CoarseFilter, shareObjects, 1)
  /\ relevant_chunks' = <<>> /\ fineLog' = <<>> /\ i' = 1
  /\ pc' = "loop"
  /\ UNCHANGED ingVars
  /\ UNCHANGED <<store, retrFixed, parent_score, result>>

\* mutant: the pass takes the first chunk for granted and raises when the
\* fine search found none
MetaFineAssumesChunks ==
  /\ pc = "loop" /\ variant = "metadata" /\ i <= Len(summaries)
  /\ Usable(DocId(summaries[i]))
  /\ \E chunks \in SearchWithScore(store[handles.vector_store], query, n_chunks,
                                    FineFilter(DocId(summaries[i])), shareObjects, Len(calls) + 1) :
        IF chunks = <<>>
        THEN pc' = "raised" /\ UNCHANGED <<parent_score, relevant_chunks, fineLog>>
        ELSE /\ pc' = pc
             /\ parent_score' = Annotate(parent_score, chunks, summaries[i].score)
             /\ relevant_chunks' = AppendAll(relevant_chunks, chunks)
             /\ fineLog' = Append(fineLog, [searched |-> TRUE, hits |-> chunks])
  /\ calls' = Append(calls, StoreCall(handles.vector_store, "similarity_search_with_score", query,
                                     n_chunks, FineFilter(DocId(summaries[i]))))
  /\ i' = i + 1
  /\ UNCHANGED ingVars
  /\ UNCHANGED <<store, retrFixed, mode, query, summaries, result>>

\* One pass of the loop over a coarse hit with a usable source.
MetaFine ==
  /\ pc = "loop" /\ variant = "metadata" /\ i <= Len(summaries)
  /\ Usable(DocId(summaries[i]))
  /\ \E chunks \in SearchWithScore(store[handles.vector_store], query, n_chunks,
                                    FineFilter(DocId(summaries[i])), shareObjects, Len(calls) + 1) :
        /\ parent_score' = Annotate(parent_score, chunks, summaries[i].score)
        /\ relevant_chunks' = AppendAll(relevant_chunks, chunks)
        /\ fineLog' = Append(fineLog, [searched |-> TRUE, hits |-> chunks])
  /\ calls' = Append(calls, StoreCall(handles.vector_store, "similarity_search_with_score", query,
                                     n_chunks, FineFilter(DocId(summaries[i]))))
  /\ i' = i + 1
  /\ UNCHANGED ingVars
  /\ UNCHANGED <<store, retrFixed, pc, mode, query, summaries, result>>

\* One pass of the loop over a coarse hit without a usable source.
MetaSkip ==
  /\ pc = "loop" /\ variant = "metadata" /\ i <= Len(summaries)
  /\ ~Usable(DocId(summaries[i]))
  /\ fineLog' = Append(fineLog, [searched |-> FALSE, hits |-> <<>>])
  /\ i' = i + 1
  /\ UNCHANGED ingVars
  /\ UNCHANGED <<store, retrFixed, pc, mode, query, calls,
                 summaries, relevant_chunks, parent_score, result>>

\* mutant: an empty result falls back to an unfiltered search
MetaReturnFallback ==
  /\ pc = "loop" /\ variant = "metadata" /\ i > Len(summaries)
  /\ IF relevant_chunks = <<>>
     THEN /\ calls' = Append(calls, StoreCall(handles.vector_store, "similarity_search_with_score",
                                              query, n_chunks, {}))
          /\ \E hits \in SearchWithScore(store[handles.vector_store], query, n_chunks, {},
                                          shareObjects, Len(calls) + 1) :
                result' = IF mode = "simple" THEN StripScores(hits) ELSE hits
     ELSE /\ UNCHANGED calls
          /\ result' = IF mode = "simple" THEN StripScores(relevant_chunks) ELSE relevant_chunks
  /\ pc' = "done"
  /\ UNCHANGED ingVars
  /\ UNCHANGED <<store, retrFixed, mode, query,
                 summaries, i, relevant_chunks, parent_score, fineLog>>

\* The loop is over: the list, or the list without scores, is returned.
MetaReturn ==
  /\ pc = "loop" /\ variant = "metadata" /\ i > Len(summaries)
  /\ result' = IF mode = "simple" THEN StripScores(relevant_chunks) ELSE relevant_chunks
  /\ pc' = "done"
  /\ UNCHANGED ingVars
  /\ UNCHANGED <<store, retrFixed, mode, query, calls,
                 summaries, i, relevant_chunks, parent_score, fineLog>>

\* -------------------------------------------------- HierarchicalRetriever
\* mutant: the legacy fine search also filters on type
LegacyFineFilterTyped(doc_id) == {<<"source", doc_id>>, <<"type", "chunk">>}

LegacyFineFilter(doc_id) == {<<"source", doc_id>>}

LegacyCoarse(q) ==
  /\ pc = "idle" /\ variant = "legacy"
  /\ query' = q /\ mode' = "scored"
  /\ calls' = <<StoreCall(handles.doc_store, "similarity_search", q, n_docs, {})>>
  /\ summaries' \in Search(store[handles.doc_store], q, n_docs, {}, shareObjects, 1)
  /\ relevant_chunks' = <<>> /\ fineLog' = <<>> /\ i' = 1
  /\ pc' = "loop"
  /\ UNCHANGED ingVars
  /\ UNCHANGED <<store, retrFixed, parent_score, result>>

LegacyFine ==
  /\ pc = "loop" /\ variant = "legacy" /\ i <= Len(summaries)
  /\ \E fine_chunks \in SearchWithScore(store[handles.chunk_store], query, n_chunks,
                                         LegacyFineFilter(DocId(summaries[i])), shareObjects,
                                         Len(calls) + 1) :
        /\ relevant_chunks' = AppendAll(relevant_chunks, fine_chunks)
        /\ fineLog' = Append(fineLog, [searched |-> TRUE, hits |-> fine_chunks])
  /\ calls' = Append(calls, StoreCall(handles.chunk_store, "similarity_search_with_score", query,
                                     n_chunks, LegacyFineFilter(DocId(summaries[i]))))
  /\ i' = i + 1
  /\ UNCHANGED ingVars
  /\ UNCHANGED <<store, retrFixed, pc, mode, query, summaries,
                 parent_score, result>>

LegacyReturn ==
  /\ pc = "loop" /\ variant = "legacy" /\ i > Len(summaries)
  /\ result' = relevant_chunks
  /\ pc' = "done"
  /\ UNCHANGED ingVars
  /\ UNCHANGED <<store, retrFixed, mode, query, calls,
                 summaries, i, relevant_chunks, parent_score, fineLog>>

\* ------------------------------------------------- the store fails a search
\* The coarse search raises: nothing in get_relevant_documents catches it,
\* the call ends with the store's exception.
MetaCoarseFail(q, m) ==
  /\ pc = "idle" /\ variant = "metadata"
  /\ query' = q /\ mode' = m
  /\ calls' = <<StoreCall(handles.vector_store, "similarity_search_with_score", q, n_docs,
                          CoarseFilter)>>
  /\ search_failed' = TRUE
  /\ pc' = "raised"
  /\ UNCHANGED ingVars
  /\ UNCHANGED <<store, shareObjects, variant, n_docs, n_chunks, handles, request,
                 summaries, i, relevant_chunks, parent_score, fineLog, result>>

\* mutant: a failed fine search is caught and the loop goes on with the next
\* coarse hit
MetaFineFailSwallowed ==
  /\ pc = "loop" /\ variant = "metadata" /\ i <= Len(summaries)
  /\ Usable(DocId(summaries[i]))
  /\ calls' = Append(calls, StoreCall(handles.vector_store, "similarity_search_with_score", query,
                                     n_chunks, FineFilter(DocId(summaries[i]))))
  /\ search_failed' = TRUE
  /\ fineLog' = Append(fineLog, [searched |-> TRUE, hits |-> <<>>])
  /\ i' = i + 1
  /\ UNCHANGED ingVars
  /\ UNCHANGED <<store, shareObjects, variant, n_docs, n_chunks, handles, request, pc, mode,
                 query, summaries, relevant_chunks, parent_score, result>>

\* A fine search raises: the call ends with the store's exception, and the
\* list built so far is lost with it.
MetaFineFail ==
  /\ pc = "loop" /\ variant = "metadata" /\ i <= Len(summaries)
  /\ Usable(DocId(summaries[i]))
  /\ calls' = Append(calls, StoreCall(handles.vector_store, "similarity_search_with_score", query,
                                     n_chunks, FineFilter(DocId(summaries[i]))))
  /\ search_failed' = TRUE
  /\ pc' = "raised"
  /\ UNCHANGED ingVars
  /\ UNCHANGED <<store, shareObjects, variant, n_docs, n_chunks, handles, request, mode,
                 query, summaries, i, relevant_chunks, parent_score, fineLog, result>>

LegacyCoarseFail(q) ==
  /\ pc = "idle" /\ variant = "legacy"
  /\ query' = q /\ mode' = "scored"
  /\ calls' = <<StoreCall(handles.doc_store, "similarity_search", q, n_docs, {})>>
  /\ search_failed' = TRUE
  /\ pc' = "raised"
  /\ UNCHANGED ingVars
  /\ UNCHANGED <<store, shareObjects, variant, n_docs, n_chunks, handles, request,
                 summaries, i, relevant_chunks, parent_score, fineLog, result>>

LegacyFineFail ==
  /\ pc = "loop" /\ variant = "legacy" /\ i <= Len(summaries)
  /\ calls' = Append(calls, StoreCall(handles.chunk_store, "similarity_search_with_score", query,
                                     n_chunks, LegacyFineFilter(DocId(summaries[i]))))
  /\ search_failed' = TRUE
  /\ pc' = "raised"
  /\ UNCHANGED ingVars
  /\ UNCHANGED <<store, shareObjects, variant, n_docs, n_chunks, handles, request, mode,
                 query, summaries, i, relevant_chunks, parent_score, fineLog, result>>

\* ---------------------------------------------------------- metadata_utils
\* doc.metadata.get("chunk_index", 0)
ChunkIndexKey(o) == IF o.rec.chunk_index = NoIndex THEN 0 ELSE o.rec.chunk_index

\* chunks.sort(key=...): a stable sort, ascending
RECURSIVE SortByChunkIndex(_)
SortByChunkIndex(sq) ==
  IF sq = <<>> THEN <<>>
  ELSE LET j == CHOOSE a \in 1..Len(sq) :
                  /\ \A b \in 1..Len(sq) : ChunkIndexKey(sq[a]) <= ChunkIndexKey(sq[b])
                  /\ \A b \in 1..(a - 1) : ChunkIndexKey(sq[b]) > ChunkIndexKey(sq[a])
       IN <<sq[j]>> \o SortByChunkIndex(SubSeq(sq, 1, j - 1) \o SubSeq(sq, j + 1, Len(sq)))

\* get_document_chunks(vector_store, source_id): every answer it may give
get_document_chunks(vs, source_id) ==
  { SortByChunkIndex([j \in 1..Len(h) |-> h[j].doc]) :
      h \in Search(store[vs], "", 1000, {<<"type", "chunk">>, <<"source", source_id>>}, FALSE, 2) }

\* reconstruct_document(vector_store, source_id) is entered and makes its
\* first search, for the summary; summary holds summary_docs[0], and is
\* empty for None.  after is the position of call 1 of process_document at
\* that moment.
reconstruct_document(vs, source_id) ==
  /\ recon.phase = "idle"
  /\ \E summary_docs \in Search(store[vs], "", 1, {<<"type", "summary">>, <<"source", source_id>>},
                                FALSE, 1) :
        recon' = [called |-> FALSE, phase |-> "chunks", store |-> vs, source_id |-> source_id,
                  after |-> proc[1].ipc,
                  summary |-> [j \in 1..Len(summary_docs) |-> summary_docs[j].doc],
                  chunks |-> <<>>, total_chunks |-> 0]
  /\ UNCHANGED <<store, retrVars, factory, proc, disk>>

\* reconstruct_document makes its second search, through
\* get_document_chunks on the store as it is by then, and returns.
ReconstructReturn ==
  /\ recon.phase = "chunks"
  /\ \E chunks \in get_document_chunks(recon.store, recon.source_id) :
        recon' = [recon EXCEPT !.called = TRUE, !.phase = "returned",
                               !.chunks = chunks, !.total_chunks = Len(chunks)]
  /\ UNCHANGED <<store, retrVars, factory, proc, disk>>

\* --------------------------------------------------------- specification
\* No query_documents request has been made; reconstruct_document has not
\* been called.
NoRequest == [phase |-> "idle", query |-> "", k |-> 0, rendered |-> 0]
NoRecon == [called |-> FALSE, phase |-> "idle"]

\* A retriever of either class is built over a store of any content.
InitRetr ==
  /\ \E X \in SUBSET Universe :
        store = [c \in Collections |->
                   IF c = HierCollection THEN X
                   ELSE IF c = DocCollection THEN X \cap SummaryRecords
                   ELSE IF c = ChunkCollection THEN X \cap ChunkRecords
                   ELSE {}]
  /\ shareObjects \in BOOLEAN
  /\ variant \in {"metadata", "legacy"}
  /\ n_docs \in 1..MaxNDocs
  /\ n_chunks \in 1..MaxNChunks
  /\ pc = "idle" /\ mode = "scored" /\ query = "q1"
  /\ calls = <<>> /\ summaries = <<>> /\ i = 1
  /\ relevant_chunks = <<>> /\ parent_score = EmptyFun /\ fineLog = <<>>
  /\ result = <<>>
  /\ handles = [vector_store |-> HierCollection, doc_store |-> DocCollection,
                chunk_store |-> ChunkCollection]
  /\ search_failed = FALSE /\ request = NoRequest
  /\ factory = "patched" /\ proc = [p \in Calls |-> IdleCall]
  /\ disk = [d \in Paths |-> 0] /\ recon = NoRecon

NextRetr ==
  \/ \E q \in Queries, m \in {"scored", "simple"} : MetaCoarse(q, m)
  \/ MetaFine
  \/ MetaSkip
  \/ MetaReturn
  \/ \E q \in Queries : LegacyCoarse(q)
  \/ LegacyFine
  \/ LegacyReturn

SpecRetr == InitRetr /\ [][NextRetr]_vars

\* Records in the store before the ingestion starts.
SeedRecords == { r \in Universe : r.id \in {1, 4, 6} }

\* Records another writer, one that tags what it writes, adds while the
\* retrieval runs: the summary of a document, then its chunk.
TaggedSummary == { r \in SummaryRecords : r.id = 2 }
TaggedChunks == { r \in ChunkRecords : r.id = 8 }

\* One process_document call on an uploaded text file, readable or not, runs
\* while one retrieval call runs.  A legacy retriever holds the two stores
\* process_document asks for by name; a metadata retriever holds the one
\* store a patched get_vector_store hands to every caller.
InitConc ==
  /\ \E X \in {{}, SeedRecords} :
        store = [c \in Collections |->
                   IF c = MockCollection THEN X
                   ELSE IF c = DocCollection THEN X \cap SummaryRecords
                   ELSE IF c = ChunkCollection THEN X \cap ChunkRecords
                   ELSE {}]
  /\ shareObjects = FALSE
  /\ \/ /\ variant = "legacy" /\ factory = "named"
        /\ handles = [vector_store |-> HierCollection, doc_store |-> DocCollection,
                      chunk_store |-> ChunkCollection]
     \/ /\ variant = "metadata" /\ factory = "patched"
        /\ handles = [vector_store |-> MockCollection, doc_store |-> MockCollection,
                      chunk_store |-> MockCollection]
  /\ n_docs \in 1..MaxNDocs
  /\ n_chunks \in 1..MaxNChunks
  /\ pc = "idle" /\ mode = "scored" /\ query = "q1"
  /\ calls = <<>> /\ summaries = <<>> /\ i = 1
  /\ relevant_chunks = <<>> /\ parent_score = EmptyFun /\ fineLog = <<>>
  /\ result = <<>>
  /\ search_failed = FALSE /\ request = NoRequest
  /\ disk = [d \in Paths |-> IF d = "uploads/test.txt" THEN 2 ELSE 0]
  /\ \E rd \in BOOLEAN :
        proc = [p \in Calls |->
                  IF p = 1 THEN [IdleCall EXCEPT !.file_path = "uploads/test.txt",
                                                 !.file = [StatFile("uploads/test.txt", 2)
                                                             EXCEPT !.readable = rd],
                                                 !.ipc = "start"]
                  ELSE IdleCall]
  /\ recon = NoRecon

\* Records the stores of the failing-store runs are drawn from.
FailUniverse == { r \in Universe : r.id \in {1, 2, 4, 6, 8} }

\* A retriever of either class over a store that may fail any search.
InitFail ==
  /\ InitRetr
  /\ store[HierCollection] \subseteq FailUniverse

NextFail ==
  \/ NextRetr
  \/ \E q \in Queries, m \in {"scored", "simple"} : MetaCoarseFail(q, m)
  \/ MetaFineFail
  \/ \E q \in Queries : LegacyCoarseFail(q)
  \/ LegacyFineFail

SpecFail == InitFail /\ [][NextFail]_vars

\* process_document is called on a file, with the store factory of the
\* repository or a patched one, on empty stores.
InitIngest ==
  /\ store = [c \in Collections |-> {}]
  /\ shareObjects = FALSE /\ variant = "metadata"
  /\ n_docs = 1 /\ n_chunks = 1
  /\ pc = "idle" /\ mode = "scored" /\ query = "q1"
  /\ calls = <<>> /\ summaries = <<>> /\ i = 1
  /\ relevant_chunks = <<>> /\ parent_score = EmptyFun /\ fineLog = <<>>
  /\ result = <<>>
  /\ handles = [vector_store |-> HierCollection, doc_store |-> DocCollection,
                chunk_store |-> ChunkCollection]
  /\ search_failed = FALSE /\ request = NoRequest
  /\ factory \in {"repo", "patched"}
  /\ \E f \in Files :
        proc = [p \in Calls |->
                  IF p = 1 THEN [IdleCall EXCEPT !.file_path = f.path, !.file = f, !.ipc = "start"]
                  ELSE IdleCall]
  /\ disk = [d \in Paths |-> 0] /\ recon = NoRecon

NextIngest ==
  \/ \E p \in Calls : PdValidateFail(p)
  \/ \E p \in Calls : PdGetStores(p)
  \/ \E p \in Calls : PdLoad(p)
  \/ \E p \in Calls : PdLoadFail(p)
  \/ \E p \in Calls : PdWriteDocs(p)
  \/ \E p \in Calls : PdWriteDocsFail(p)
  \/ \E p \in Calls : PdWriteChunks(p)
  \/ \E p \in Calls : PdWriteChunksFail(p)

SpecIngest == InitIngest /\ [][NextIngest]_vars

\* Another client of the database adds records to a collection: the store
\* is a connection to a shared database, and what it holds changes between
\* two searches of one caller.
add_documents(vs, recs) ==
  /\ recs \cap store[vs] = {}
  /\ store' = [store EXCEPT ![vs] = @ \cup recs]
  /\ UNCHANGED <<retrVars, ingVars>>

\* process_document is called on a file and reconstruct_document is called
\* on a store for a source id, after the ingestion or while it runs, and
\* while another client writes to the store.
NextRoundTrip ==
  \/ NextIngest
  \/ \E vs \in {MockCollection, HierCollection}, sid \in {file.path, file.name, "a.txt"} :
        reconstruct_document(vs, sid)
  \/ ReconstructReturn
  \/ add_documents(MockCollection, SeedRecords)

SpecRoundTrip == InitIngest /\ [][NextRoundTrip]_vars

\* Upload requests arrive and workers run the queued tasks, in any order and
\* in parallel, on one store.
InitTasks ==
  /\ store = [c \in Collections |-> {}]
  /\ shareObjects = FALSE /\ variant = "metadata"
  /\ n_docs = 1 /\ n_chunks = 1
  /\ pc = "idle" /\ mode = "scored" /\ query = "q1"
  /\ calls = <<>> /\ summaries = <<>> /\ i = 1
  /\ relevant_chunks = <<>> /\ parent_score = EmptyFun /\ fineLog = <<>>
  /\ result = <<>>
  /\ handles = [vector_store |-> MockCollection, doc_store |-> MockCollection,
                chunk_store |-> MockCollection]
  /\ search_failed = FALSE /\ request = NoRequest
  /\ factory = "patched"
  /\ proc = [p \in Calls |-> IdleCall]
  /\ disk = [d \in Paths |-> 0] /\ recon = NoRecon

NextTasks ==
  \/ \E p \in Calls, nm \in UploadNames : upload_file(p, nm)
  \/ \E p \in Calls : upload_file_copy(p)
  \/ \E p \in Calls : upload_file_delay(p)
  \/ \E p \in Calls : process_file_task(p)
  \/ \E p \in Calls : validate_file_sniff(p)
  \/ \E p \in Calls : validate_file_sniff_read(p)
  \/ NextIngest

SpecTasks == InitTasks /\ [][NextTasks]_vars

\* ------------------------------------------------------- query_documents
\* Values of the form fields of POST /query: the query, blank or not, and k.
QueryInputs == Queries \cup {"", " "}
KInputs == {-3, 0, 1, 2, 5, 8, 9, 20, 21}

\* not query or query.strip() == ""
Blank(q) == q \in {"", " "}

MaxOf(a, b) == IF a >= b THEN a ELSE b
MinOf(a, b) == IF a <= b THEN a ELSE b

\* k = max(1, min(k, 20))
ClampK(k) == MaxOf(1, MinOf(k, 20))

\* n_docs = max(2, k // 3)
NDocsFor(k) == MaxOf(2, k \div 3)

\* n_chunks_per_doc = max(3, k // n_docs)
NChunksFor(k) == MaxOf(3, k \div NDocsFor(k))

\* query_documents up to the call of the retriever: a blank query is answered
\* with a warning; otherwise k is clamped, the store is asked for by name (a
\* TypeError with the repository's get_vector_store, answered by the except
\* branch) and the retriever is built with the sizes computed from k.
query_documents(q, k) ==
  /\ request.phase = "idle" /\ pc = "idle"
  /\ IF Blank(q)
     THEN /\ request' = [request EXCEPT !.phase = "warning", !.query = q, !.k = k]
          /\ UNCHANGED <<variant, n_docs, n_chunks, handles>>
     ELSE IF factory = "repo"
     THEN /\ request' = [request EXCEPT !.phase = "error", !.query = q, !.k = ClampK(k)]
          /\ UNCHANGED <<variant, n_docs, n_chunks, handles>>
     ELSE /\ request' = [request EXCEPT !.phase = "retrieving", !.query = q, !.k = ClampK(k)]
          /\ variant' = "metadata"
          /\ n_docs' = NDocsFor(ClampK(k))
          /\ n_chunks' = NChunksFor(ClampK(k))
          /\ handles' = [handles EXCEPT !.vector_store = MockCollection]
  /\ UNCHANGED ingVars
  /\ UNCHANGED <<store, shareObjects, search_failed, pc, mode, query, calls, summaries, i,
                 relevant_chunks, parent_score, fineLog, result>>

\* query_documents after the retriever returned: no results, or one entry
\* per result.
QueryRender ==
  /\ request.phase = "retrieving" /\ pc = "done"
  /\ request' = [request EXCEPT !.phase = IF result = <<>> THEN "empty" ELSE "rendered",
                                !.rendered = Len(result)]
  /\ UNCHANGED ingVars
  /\ UNCHANGED <<store, shareObjects, variant, n_docs, n_chunks, handles, search_failed,
                 pc, mode, query, calls, summaries, i, relevant_chunks, parent_score,
                 fineLog, result>>

\* One POST /query request is served, by the repository's get_vector_store
\* or by a patched one that returns a store.
InitQuery ==
  /\ \E X \in {{}, SeedRecords, Universe} :
        store = [c \in Collections |-> IF c = MockCollection THEN X ELSE {}]
  /\ shareObjects = FALSE
  /\ variant = "metadata" /\ n_docs = 1 /\ n_chunks = 1
  /\ pc = "idle" /\ mode = "scored" /\ query = "q1"
  /\ calls = <<>> /\ summaries = <<>> /\ i = 1
  /\ relevant_chunks = <<>> /\ parent_score = EmptyFun /\ fineLog = <<>>
  /\ result = <<>>
  /\ handles = [vector_store |-> HierCollection, doc_store |-> DocCollection,
                chunk_store |-> ChunkCollection]
  /\ search_failed = FALSE /\ request = NoRequest
  /\ factory \in {"repo", "patched"}
  /\ proc = [p \in Calls |-> IdleCall]
  /\ disk = [d \in Paths |-> 0] /\ recon = NoRecon

NextQuery ==
  \/ \E q \in QueryInputs, k \in KInputs : query_documents(q, k)
  \/ request.phase = "retrieving" /\ MetaCoarse(request.query, "scored")
  \/ MetaFine
  \/ MetaSkip
  \/ MetaReturn
  \/ QueryRender

SpecQuery == InitQuery /\ [][NextQuery]_vars

\* Records of a store in which one source has two summaries.
DupSeeds == { r \in Universe : r.id \in {1, 3, 4, 6, 7} }

\* process_document is run twice on the same uploaded file, readable or
\* not, and a retriever is then called: a legacy one over the store the
\* two runs wrote to, or a metadata one over a store in which a source has
\* two summaries.
InitReingest ==
  /\ \/ /\ variant = "legacy"
        /\ store = [c \in Collections |-> {}]
     \/ /\ variant = "metadata"
        /\ store = [c \in Collections |-> IF c = MockCollection THEN DupSeeds ELSE {}]
  /\ shareObjects = FALSE
  /\ n_docs = 2
  /\ n_chunks \in 1..MaxNChunks
  /\ pc = "idle" /\ mode = "scored" /\ query = "q1"
  /\ calls = <<>> /\ summaries = <<>> /\ i = 1
  /\ relevant_chunks = <<>> /\ parent_score = EmptyFun /\ fineLog = <<>>
  /\ result = <<>>
  /\ handles = [vector_store |-> MockCollection, doc_store |-> MockCollection,
                chunk_store |-> MockCollection]
  /\ search_failed = FALSE /\ request = NoRequest
  /\ factory = "patched"
  /\ disk = [d \in Paths |-> IF d = "uploads/test.txt" THEN 1 ELSE 0]
  /\ \E rd \in BOOLEAN :
        proc = [p \in Calls |->
                  IF p \in {1, 2}
                  THEN [IdleCall EXCEPT !.file_path = "uploads/test.txt",
                                        !.file = [StatFile("uploads/test.txt", 1)
                                                    EXCEPT !.readable = rd],
                                        !.ipc = "start"]
                  ELSE IdleCall]
  /\ recon = NoRecon

\* Both runs have ended.
Reingested == proc[1].ipc = "done" /\ proc[2].ipc = "done"

NextReingest ==
  \/ NextIngest
  \/ Reingested /\ NextRetr

SpecReingest == InitReingest /\ [][NextReingest]_vars

NextConc ==
  \/ NextIngest
  \/ NextRetr
  \/ variant = "metadata" /\ add_documents(handles.vector_store, TaggedSummary)
  \/ /\ variant = "metadata" /\ TaggedSummary \subseteq store[handles.vector_store]
     /\ add_documents(handles.vector_store, TaggedChunks)

SpecConc == InitConc /\ [][NextConc]_vars

\* ------------------------------------------------- retrieval: properties
RECURSIVE Flatten(_)
Flatten(log) ==
  IF log = <<>> THEN <<>> ELSE log[1].hits \o Flatten(Tail(log))

\* Number of entries produced by the coarse hits before hit j.
PrefixLen(j) == Len(Flatten(SubSeq(fineLog, 1, j - 1)))

\* The coarse hit whose fine search produced the entry at position p.
OriginOf(p) ==
  CHOOSE j \in 1..Len(fineLog) : PrefixLen(j) < p /\ p <= PrefixLen(j) + Len(fineLog[j].hits)

CoarseSources == { DocId(summaries[j]) : j \in 1..Len(summaries) }

MetaDone == pc = "done" /\ variant = "metadata"
LegacyDone == pc = "done" /\ variant = "legacy"

\* C1: a metadata retrieval returns at most n_docs * n_chunks_per_doc
\* entries, every one of them from the source of one of the at most n_docs
\* coarse hits; with n_docs = 1 all entries come from the one coarse hit.
C1_BoundedAndScoped ==
  (MetaDone /\ mode = "scored") =>
    /\ Len(summaries) <= n_docs
    /\ Len(result) <= n_docs * n_chunks
    /\ \A p \in 1..Len(result) : result[p].doc.rec.source \in CoarseSources
    /\ (n_docs = 1 /\ result # <<>>) =>
          \A p \in 1..Len(result) : result[p].doc.rec.source = DocId(summaries[1])

\* n_docs = 1, two documents with chunks in the store, the bound is met.
C1_Witness ==
  /\ MetaDone /\ mode = "scored" /\ n_docs = 1 /\ n_chunks >= 2
  /\ Len(result) = n_docs * n_chunks
  /\ \E r \in store[HierCollection] : r.type = "chunk" /\ r.source = "b.txt"
  /\ DocId(summaries[1]) = "a.txt"

\* The fine searches a metadata retrieval is to make for coarse hits 1..n.
RECURSIVE ExpectedFineCalls(_)
ExpectedFineCalls(n) ==
  IF n = 0 THEN <<>>
  ELSE ExpectedFineCalls(n - 1) \o
       (IF DocId(summaries[n]) \in {NoneVal, ""} THEN <<>>
        ELSE << [store |-> HierCollection, method |-> "similarity_search_with_score",
                 query |-> query, k |-> n_chunks,
                 filter |-> {<<"source", DocId(summaries[n])>>, <<"type", "chunk">>}] >>)

\* C2: the store calls of a metadata retrieval are one coarse search
\* (k = n_docs, filter type = summary) followed by one fine search per
\* coarse hit with a usable source, in coarse-hit order, with the same
\* query, k = n_chunks_per_doc and filter source = that source, type =
\* chunk; nothing else.
C2_CallSequence ==
  (variant = "metadata" /\ pc # "idle") =>
    /\ calls[1] = [store |-> HierCollection, method |-> "similarity_search_with_score",
                   query |-> query, k |-> n_docs, filter |-> {<<"type", "summary">>}]
    /\ Tail(calls) = ExpectedFineCalls(i - 1)
    /\ pc = "done" => i - 1 = Len(summaries)

C2_Witness ==
  /\ MetaDone /\ Len(calls) = 3 /\ Len(summaries) = 2
  /\ calls[2].filter # calls[3].filter

\* C3: in both retrievers an empty coarse result gives an empty result and
\* exactly one store call.
C3_EmptyCoarse ==
  (pc # "idle" /\ summaries = <<>>) =>
    /\ Len(calls) = 1
    /\ relevant_chunks = <<>>
    /\ pc = "done" => result = <<>>

C3_Witness ==
  /\ pc = "done" /\ summaries = <<>> /\ result = <<>>
  /\ store[HierCollection] # {}

\* C4: a coarse hit without source metadata (absent, None, empty) gets no
\* fine search and no entries, and the other hits are still processed.
C4_NoSourceSkipped ==
  (variant = "metadata" /\ pc # "idle") =>
    /\ \A c \in 2..Len(calls) :
          \A f \in calls[c].filter : f[1] = "source" => f[2] \notin {NoneVal, ""}
    /\ Len(calls) - 1 =
          Cardinality({ j \in 1..(i - 1) : DocId(summaries[j]) \notin {NoneVal, ""} })
    /\ \A p \in 1..Len(relevant_chunks) :
          relevant_chunks[p].doc.rec.source \notin {NoneVal, ""}
    /\ pc = "done" => i = Len(summaries) + 1

C4_Witness ==
  /\ MetaDone /\ Len(summaries) = 2
  /\ DocId(summaries[1]) \in {NoneVal, ""}
  /\ DocId(summaries[2]) = "a.txt"
  /\ Len(result) >= 1 /\ Len(calls) = 2

\* C5: the result is the concatenation of the fine results in coarse-hit
\* order, each in the order the store returned it; no global re-sort.
C5_ConcatInCoarseOrder ==
  /\ pc # "idle" => relevant_chunks = Flatten(fineLog)
  /\ (pc = "done" /\ mode = "scored") =>
        /\ result = Flatten(fineLog)
        /\ \A p1, p2 \in 1..Len(result) : p1 < p2 => OriginOf(p1) <= OriginOf(p2)

\* A later document's chunk with a smaller distance sits after an earlier
\* document's chunk with a larger one.
C5_Witness ==
  /\ pc = "done" /\ mode = "scored"
  /\ \E p1, p2 \in 1..Len(result) :
        /\ p1 < p2 /\ OriginOf(p1) < OriginOf(p2)
        /\ result[p2].score < result[p1].score

\* C6 (as claimed): every returned entry's parent_summary_score is the score
\* of the coarse hit whose fine search produced the entry.
C6_ParentScoreOfOrigin ==
  (MetaDone /\ mode = "scored") =>
    \A p \in 1..Len(result) :
      /\ result[p].doc \in DOMAIN parent_score
      /\ parent_score[result[p].doc] = summaries[OriginOf(p)].score

\* C7 (as claimed): the simple accessor returns the chunk records in order,
\* without scores and without parent_summary_score annotation.
C7_SimpleUnannotated ==
  (MetaDone /\ mode = "simple") =>
    /\ Len(result) = Len(relevant_chunks)
    /\ \A p \in 1..Len(result) :
          /\ result[p] = relevant_chunks[p].doc
          /\ result[p] \notin DOMAIN parent_score

\* C7 (amended): the simple accessor returns the chunk records in order,
\* without the distance scores; the records still carry the
\* parent_summary_score annotation.
C7_SimpleKeepsAnnotation ==
  (MetaDone /\ mode = "simple") =>
    /\ Len(result) = Len(relevant_chunks)
    /\ \A p \in 1..Len(result) :
          /\ result[p] = relevant_chunks[p].doc
          /\ DOMAIN result[p] = {"rec", "cp"}
          /\ result[p] \in DOMAIN parent_score

C7_Witness ==
  /\ MetaDone /\ mode = "simple" /\ Len(result) >= 2
  /\ result[1] # result[2]

\* The fine searches a legacy retrieval is to make for coarse documents 1..n.
RECURSIVE ExpectedLegacyCalls(_)
ExpectedLegacyCalls(n) ==
  IF n = 0 THEN <<>>
  ELSE Append(ExpectedLegacyCalls(n - 1),
              [store |-> ChunkCollection, method |-> "similarity_search_with_score",
               query |-> query, k |-> n_chunks,
               filter |-> {<<"source", DocId(summaries[n])>>}])

\* C8: the legacy retriever searches doc_store once (k = n_docs, no filter)
\* and chunk_store once per coarse document (k = n_chunks, filter source =
\* that document's source, None when it has none), and appends whatever
\* each fine search returns.
C8_LegacyCalls ==
  (variant = "legacy" /\ pc # "idle") =>
    /\ calls[1] = [store |-> DocCollection, method |-> "similarity_search",
                   query |-> query, k |-> n_docs, filter |-> {}]
    /\ Tail(calls) = ExpectedLegacyCalls(i - 1)
    /\ relevant_chunks = Flatten(fineLog)
    /\ \A j \in 1..Len(fineLog) : fineLog[j].searched
    /\ pc = "done" => (i - 1 = Len(summaries) /\ result = Flatten(fineLog))

\* A coarse document without source: searched with source = None, and what
\* came back is in the result.
C8_Witness ==
  /\ LegacyDone /\ Len(summaries) = 2
  /\ DocId(summaries[1]) = NoneVal
  /\ calls[2].filter = {<<"source", NoneVal>>}
  /\ Len(fineLog[1].hits) = 1 /\ result[1] = fineLog[1].hits[1]
  /\ Len(result) >= 2

\* ------------------------------------------------- ingestion: properties
\* C9 (as claimed): for a file that validates and loads, the call returns a
\* report with success = true, source_id = the validated file's name,
\* summary_stored = true, chunks_stored = the number of chunk records
\* written and collection = "hierarchical_documents".
C9_IngestionReport ==
  (ipc = "done" /\ validate_file(file).valid /\ documents # <<>> /\ outcome.kind = "return") =>
    /\ {"success", "source_id", "summary_stored", "chunks_stored", "collection"}
          \subseteq DOMAIN outcome.value
    /\ outcome.value.success = TRUE
    /\ outcome.value.source_id = file.name
    /\ outcome.value.summary_stored = TRUE
    /\ outcome.value.chunks_stored = Len(writes[Len(writes)].records)
    /\ outcome.value.collection = HierCollection

\* C10: a call that returns has made exactly two add_documents calls, the
\* document-level write first and the chunk write second; a chunk write is
\* only ever attempted after the document-level write has returned, so the
\* document-level records are in the store whenever the chunk write fails.
C10_TwoWritesInOrder ==
  /\ Len(writes) <= 2
  /\ (ipc = "done" /\ outcome.kind = "return") =>
        /\ Len(writes) = 2
        /\ writes[1].ok /\ writes[2].ok
  /\ \A j \in 1..Len(writes) :
        writes[j].arg = "split_documents" =>
          /\ j = 2
          /\ writes[1].arg = "documents" /\ writes[1].ok
          /\ writes[1].records = documents
          /\ Range(documents) \subseteq store[writes[1].store]
  /\ \A j \in 1..Len(writes) :
        writes[j].arg = "documents" => j = 1

\* The chunk write failed after the document-level write went through.
C10_Witness ==
  /\ ipc = "done" /\ Len(writes) = 2
  /\ writes[1].arg = "documents" /\ writes[1].ok
  /\ writes[2].arg = "split_documents" /\ ~writes[2].ok
  /\ Len(writes[2].records) = 3
  /\ Range(documents) \subseteq store[MockCollection]
  /\ outcome.kind = "raise"

\* C11 (as claimed): every record of the first write has type "summary",
\* every record of the second write has type "chunk", and no stored record
\* has any other type.
C11_TypesPartition ==
  /\ \A j \in 1..Len(writes) : \A r \in Range(writes[j].records) :
        /\ j = 1 => r.type = "summary"
        /\ j = 2 => r.type = "chunk"
  /\ \A c \in Collections : \A r \in store[c] : r.type \in {"summary", "chunk"}

\* Number of chunks the splitter cuts from the loaded documents.
RECURSIVE ChunkCount(_)
ChunkCount(docs) ==
  IF docs = <<>> THEN 0 ELSE Len(ChunkStarts(0, docs[1].len)) + ChunkCount(Tail(docs))

\* C12 (as claimed): after an ingestion the chunk records stored for the
\* document are as many as the chunker produced, and their chunk_index
\* values are 0..count-1 in chunker order.
C12_DenseChunkIndex ==
  (ipc = "done" /\ outcome.kind = "return") =>
    LET chunks == writes[2].records
    IN /\ Len(chunks) = ChunkCount(documents)
       /\ Cardinality({ r \in store[writes[2].store] :
                          r \in Range(chunks) /\ r.source = file.path }) = ChunkCount(documents)
       /\ \A j \in 1..Len(chunks) : chunks[j].chunk_index = j - 1

\* C13 (as claimed): an ingestion stores exactly one document-level
\* (summary) record, whatever the loader returned, and every chunk record's
\* source is the source of exactly one such record.
C13_OneSummaryPerDocument ==
  (ipc = "done" /\ outcome.kind = "return") =>
    LET sums == { r \in store[writes[1].store] : r \in Range(writes[1].records) }
    IN /\ Cardinality(sums) = 1
       /\ \A c \in Range(writes[2].records) :
             Cardinality({ r \in sums : r.source = c.source }) = 1

\* The file fails one of the checks of validate_file.
FailsValidation(f) ==
  \/ ~f.exists \/ ~f.is_file
  \/ f.size = 0 \/ f.size > max_size_bytes
  \/ f.ext \notin {".txt", ".md", ".pdf"}
  \/ f.tokens # {}
  \/ ~f.readable

\* C14: when validation of the file fails, process_document raises
\* FileValidationError and no add_documents call has been made: the store
\* is as it was.
C14_ValidationFailsBeforeWrite ==
  (ipc # "start" /\ FailsValidation(file)) =>
    /\ ipc = "done"
    /\ outcome.kind = "raise" /\ outcome.error = "FileValidationError"
    /\ writes = <<>>
    /\ \A c \in Collections : store[c] = {}

\* An unsupported extension on an otherwise good file, with a store factory
\* that would have handed out a store.
C14_Witness ==
  /\ ipc = "done" /\ factory = "patched"
  /\ file.exists /\ file.is_file /\ file.size = 70 /\ file.ext = ".docx" /\ file.readable
  /\ outcome.kind = "raise" /\ outcome.msg = "Unsupported file type"

\* C15 (as claimed): a validated file that loads to empty text makes
\* process_document fail with a load error before any store write; a load
\* failure leaves the store unchanged.
C15_EmptyContentFails ==
  /\ (documents # <<>> /\ \A k \in 1..Len(documents) : documents[k].len = 0) =>
        /\ writes = <<>>
        /\ ipc = "done" => (outcome.kind = "raise" /\ outcome.error = "LoadError")
  /\ (ipc = "done" /\ outcome.kind = "raise" /\ outcome.error = "LoadError") =>
        (writes = <<>> /\ \A c \in Collections : store[c] = {})

\* C16 (as claimed): when a store write fails, the outcome handed to the
\* caller says which of the two writes went through.
C16_ReportsFailedPhase ==
  (ipc = "done" /\ \E j \in 1..Len(writes) : ~writes[j].ok) =>
    /\ {"summary_stored", "chunks_stored"} \subseteq DOMAIN outcome
    /\ outcome.summary_stored = writes[1].ok
    /\ outcome.chunks_stored = (Len(writes) = 2 /\ writes[2].ok)

\* C17 (as claimed): an existing file whose path holds a suspicious pattern
\* is rejected as unsafe, whatever its size and content.
C17_UnsafePathAlways ==
  (ipc # "start" /\ file.exists /\ file.is_file /\ file.tokens \cap suspicious_patterns # {}) =>
    /\ outcome.kind = "raise" /\ outcome.error = "FileValidationError"
    /\ outcome.msg = "Suspicious characters detected in file path"

\* C18 (as claimed): a readable file with a clean path that passes the
\* existence, size and extension checks and whose sniffed type is not one
\* expected for its extension is rejected with a type-mismatch error, never
\* reported valid.
C18_MismatchRejected ==
  (/\ ipc # "start"
   /\ file.exists /\ file.is_file /\ file.size > 0 /\ file.size <= max_size_bytes
   /\ file.ext \in allowed_extensions /\ file.tokens = {} /\ file.readable
   /\ file.sniff # "error" /\ file.sniff \notin expected_mimes[file.ext]) =>
    /\ outcome.kind = "raise" /\ outcome.error = "FileValidationError"
    /\ outcome.msg = "MIME type mismatch"

\* What the call raised, "none" when it raised nothing.
RaisedMsg == IF outcome.kind = "raise" THEN outcome.msg ELSE "none"

\* C19: for an existing regular file the size check fails with the empty
\* error exactly for size 0 and with the too-large error exactly for a
\* size above max_size_bytes; a file of exactly max_size_bytes passes it.
C19_SizeCheck ==
  (ipc # "start" /\ file.exists /\ file.is_file) =>
    /\ (file.size = 0) <=> (RaisedMsg = "File is empty")
    /\ (file.size > 50 * 1024 * 1024) <=> (RaisedMsg = "File too large")

\* A file of exactly max_size_bytes went through validation.
C19_Witness ==
  /\ ipc = "load" /\ file.size = 50 * 1024 * 1024
  /\ outcome.kind = "none"

\* C20 (as claimed): the too-large error carries the true size in bytes.
C20_ReportsBytes ==
  (ipc # "start" /\ file.exists /\ file.is_file /\ file.size > max_size_bytes) =>
    /\ outcome.kind = "raise" /\ outcome.msg = "File too large"
    /\ "file_size_bytes" \in DOMAIN outcome.detail
    /\ outcome.detail.file_size_bytes = file.size

\* C20 (amended): the too-large error carries the size in MB to the nearest
\* hundredth and the limit in MB; files of max_size_bytes + 1 and + 2 bytes
\* both report 50.00MB.
C20_ReportsRoundedMb ==
  (ipc # "start" /\ file.exists /\ file.is_file /\ file.size > max_size_bytes) =>
    /\ outcome.kind = "raise" /\ outcome.error = "FileValidationError"
    /\ outcome.msg = "File too large"
    /\ outcome.detail.max_mb = 50
    /\ LET frac == outcome.detail.reported_mb_x100 - (file.size \div 1048576) * 100
           err == frac * 1048576 - (file.size % 1048576) * 100
       IN -524288 <= err /\ err <= 524288
    /\ file.size \in {52428801, 52428802} => outcome.detail.reported_mb_x100 = 5000

\* Two bytes over the limit, reported as 50.00MB.
C20_Witness ==
  /\ ipc = "done" /\ file.exists /\ file.is_file
  /\ file.size = 52428802
  /\ outcome.kind = "raise" /\ outcome.msg = "File too large"
  /\ outcome.detail.reported_mb_x100 = 5000

\* The file passes the existence and size checks.
PassesExistenceAndSize(f) ==
  f.exists /\ f.is_file /\ f.size > 0 /\ f.size <= 50 * 1024 * 1024

\* The sniffed type is one expected for the extension, or sniffing was
\* unavailable.
PassesContentType(f) ==
  \/ f.sniff = "error"
  \/ f.ext = ".txt" /\ f.sniff \in {"text/plain", "text/x-plain"}
  \/ f.ext = ".md" /\ f.sniff \in {"text/plain", "text/markdown", "text/x-markdown"}
  \/ f.ext = ".pdf" /\ f.sniff = "application/pdf"

\* The report validate_file handed back for the file of the first call.
ReportsValid ==
  /\ ipc # "start"
  /\ ~(outcome.kind = "raise" /\ outcome.error = "FileValidationError")
  /\ validate_file(file).valid
  /\ validate_file(file).file_name = file.name
  /\ validate_file(file).file_extension = file.ext
  /\ validate_file(file).file_size_bytes = file.size
  /\ (outcome.kind = "return" => outcome.value.file_info = validate_file(file))

\* C21 (as claimed): a file that passes the existence, size and content-type
\* checks is reported valid, with its name, extension and size, when its
\* extension is .txt, .md or .pdf, and fails with the unsupported-type
\* error otherwise.
C21_SupportedExtensions ==
  (ipc # "start" /\ PassesExistenceAndSize(file)) =>
    /\ (file.ext \in {".txt", ".md", ".pdf"} /\ PassesContentType(file)) => ReportsValid
    /\ file.ext \notin {".txt", ".md", ".pdf"} =>
          (outcome.kind = "raise" /\ outcome.error = "FileValidationError"
           /\ outcome.msg = "Unsupported file type")

\* C21 (amended): such a file is reported valid when its extension is
\* supported, its path holds no suspicious pattern and it is readable; with
\* any other extension it fails with the unsupported-type error; a file of
\* another extension is never reported valid.
C21_SupportedSafeReadable ==
  /\ (ipc # "start" /\ PassesExistenceAndSize(file)) =>
        /\ (file.ext \in {".txt", ".md", ".pdf"} /\ PassesContentType(file)
            /\ file.tokens = {} /\ file.readable) => ReportsValid
        /\ file.ext \notin {".txt", ".md", ".pdf"} =>
              (outcome.kind = "raise" /\ outcome.error = "FileValidationError"
               /\ outcome.msg = "Unsupported file type")
  /\ (ipc # "start" /\ file.ext \notin {".txt", ".md", ".pdf"}) =>
        (outcome.kind = "raise" /\ outcome.error = "FileValidationError")

\* A markdown file of exactly the size limit went through and was stored.
C21_Witness ==
  /\ ipc = "done" /\ outcome.kind = "return"
  /\ file.ext = ".md" /\ file.size = 50 * 1024 * 1024 /\ file.sniff = "text/plain"
  /\ outcome.value.file_info.valid /\ outcome.value.file_info.file_name = "test.md"

\* C22 (as claimed): get_vector_store succeeds for every collection name
\* the program passes and returns the store of that name, so that a call
\* of process_document on a valid file gets its stores; without a name it
\* returns the store of "documents".
C22_StoreForEveryName ==
  (factory = "repo" /\ ipc # "start" /\ validate_file(file).valid) =>
    /\ \A name \in {DocCollection, ChunkCollection, HierCollection} :
          /\ get_vector_store(factory, name).ok
          /\ get_vector_store(factory, name).store = name
    /\ get_vector_store_default.ok /\ get_vector_store_default.store = "documents"
    /\ ~(outcome.kind = "raise" /\ outcome.error = "TypeError")

\* C23 (as claimed): after a document has been ingested,
\* reconstruct_document on the store it was written to, for the source its
\* records carry, returns its summary and as many chunks as were stored,
\* in ascending chunk_index order.
C23_RoundTrip ==
  (/\ recon.called /\ recon.after = "done" /\ outcome.kind = "return"
   /\ recon.store = writes[2].store /\ recon.source_id = file.path) =>
    /\ Len(recon.summary) = 1
    /\ recon.total_chunks = Len(writes[2].records)
    /\ Len(recon.chunks) = recon.total_chunks
    /\ \A j \in 1..Len(recon.chunks) : recon.chunks[j].rec.chunk_index = j - 1

RECURSIVE SumLen(_)
SumLen(sq) == IF sq = <<>> THEN 0 ELSE sq[1].len + SumLen(Tail(sq))

\* C24 (as claimed): every chunk written has at most 500 characters; a
\* one-document text shorter than the window gives exactly one chunk; a
\* 1,200-character text gives exactly 3 chunks with chunk_index 0, 1, 2,
\* consecutive chunks sharing 50 characters (the lengths add up to
\* 1,200 + 2 * 50).
C24_Chunking ==
  (ipc = "done" /\ outcome.kind = "return") =>
    LET chunks == writes[2].records
    IN /\ \A j \in 1..Len(chunks) : chunks[j].len <= 500
       /\ (Len(documents) = 1 /\ documents[1].len > 0 /\ documents[1].len < 500) =>
             Len(chunks) = 1
       /\ (Len(documents) = 1 /\ documents[1].len = 1200) =>
             /\ Len(chunks) = 3
             /\ SumLen(chunks) = 1200 + 2 * 50
             /\ \A j \in 1..Len(chunks) : chunks[j].chunk_index = j - 1

\* C27: when the store fails the coarse search or a fine search, the call
\* ends by raising: it returns nothing (neither the entries collected so
\* far nor an empty list), and the failed search is the last store call it
\* made (no retry, no other search in its place).
C27_FailurePropagates ==
  /\ search_failed => pc = "raised"
  /\ pc = "done" => ~search_failed
  /\ pc = "raised" =>
        /\ search_failed
        /\ result = <<>>
        /\ Len(calls) =
             IF summaries = <<>> THEN 1
             ELSE 2 + Cardinality({ j \in 1..Len(fineLog) : fineLog[j].searched })

\* The second fine search failed after the first one had collected an
\* entry: the call raised and the entry was not returned.
C27_Witness ==
  /\ pc = "raised" /\ search_failed /\ variant = "metadata"
  /\ Len(calls) = 3 /\ Len(relevant_chunks) >= 1
  /\ result = <<>>

\* Records the coarse search of the retriever can answer with, and records
\* its fine search for a source can answer with.
CoarseVisible ==
  IF variant = "metadata"
  THEN { r \in store[handles.vector_store] : r.type = "summary" }
  ELSE store[handles.doc_store]

FineVisible(src) ==
  IF variant = "metadata"
  THEN { r \in store[handles.vector_store] : r.type = "chunk" /\ r.source = src }
  ELSE { r \in store[handles.chunk_store] : r.source = src }

\* C25: whatever the interleaving of a process_document call (its two
\* writes, or a failure between them) and of another writer's summary and
\* chunk writes with a retrieval call, the retrieval never ends by raising;
\* its coarse hits are records its coarse search can see, so a document
\* whose summary is not visible is absent; a coarse hit none of whose chunks
\* is written yet contributes no entry; and every returned entry is a
\* visible chunk with the source of one of the coarse hits.
C25_RetrievalTolerates ==
  /\ pc \in {"idle", "loop", "done"} /\ ~search_failed
  /\ pc # "idle" =>
        /\ \A j \in 1..Len(summaries) : summaries[j].doc.rec \in CoarseVisible
        /\ \A p \in 1..Len(relevant_chunks) :
              /\ relevant_chunks[p].doc.rec.source \in CoarseSources
              /\ relevant_chunks[p].doc.rec \in FineVisible(relevant_chunks[p].doc.rec.source)
        /\ \A j \in 1..Len(fineLog) :
              FineVisible(DocId(summaries[j])) = {} => fineLog[j].hits = <<>>
  /\ (pc = "done" /\ mode = "scored") => result = relevant_chunks
  /\ (pc = "done" /\ mode = "simple") => Len(result) = Len(relevant_chunks)

\* A metadata retrieval ran between the two writes of both writers: its
\* coarse search returned the tagged summary, whose chunk is not written
\* yet and which contributed no entry, and did not return the document-level
\* record process_document has written to the same store ahead of its
\* chunks.
C25_Witness ==
  /\ pc = "done" /\ variant = "metadata"
  /\ proc[1].ipc = "write_chunks"
  /\ Range(proc[1].documents) # {}
  /\ Range(proc[1].documents) \subseteq store[handles.vector_store]
  /\ \A j \in 1..Len(summaries) : summaries[j].doc.rec \notin Range(proc[1].documents)
  /\ TaggedChunks \cap store[handles.vector_store] = {}
  /\ \E j \in 1..Len(summaries) :
        /\ summaries[j].doc.rec \in TaggedSummary
        /\ fineLog[j].searched /\ fineLog[j].hits = <<>>
        /\ FineVisible(DocId(summaries[j])) = {}

\* A legacy retrieval ran between the two writes of process_document: its
\* coarse search returned the document-level record just written to the
\* document store, the chunk store held no chunk of it, and it contributed
\* no entry.
LegacyReadBetweenWrites ==
  /\ pc = "done" /\ variant = "legacy"
  /\ proc[1].ipc = "write_chunks"
  /\ \E j \in 1..Len(summaries) :
        /\ summaries[j].doc.rec \in Range(proc[1].documents)
        /\ fineLog[j].searched /\ fineLog[j].hits = <<>>
        /\ FineVisible(DocId(summaries[j])) = {}

\* C26 (as claimed): whatever the interleaving of uploads and task runs, the
\* documents a task loads and the records it writes hold the bytes of the
\* upload request that queued the task.
C26_TaskReadsOwnUpload ==
  \A p \in Calls :
    /\ \A k \in 1..Len(proc[p].documents) : proc[p].documents[k].text = p
    /\ \A j \in 1..Len(proc[p].writes) :
          \A r \in Range(proc[p].writes[j].records) : r.text = p

\* Records of a document-level write that went through, and of a chunk
\* write that went through.
WrittenBy(arg) ==
  UNION { IF j <= Len(proc[p].writes) /\ proc[p].writes[j].arg = arg /\ proc[p].writes[j].ok
          THEN Range(proc[p].writes[j].records) ELSE {} :
            p \in Calls, j \in 1..2 }

WrittenDocs == WrittenBy("documents")

WrittenChunks == WrittenBy("split_documents")

AllStored == UNION { store[c] : c \in Collections }

\* C30: in every state, under any interleaving of ingestions and after any
\* write failure, the store holds every record a write put there, and
\* every chunk record in it has the source of a document-level record that
\* process_document wrote and that is in the store.
C30_NoOrphanChunk ==
  /\ WrittenDocs \cup WrittenChunks = AllStored
  /\ \A r \in WrittenChunks :
        \E d \in WrittenDocs : d \in AllStored /\ d.source = r.source
  /\ \A p \in Calls :
        proc[p].ipc = "write_chunks" => Range(proc[p].documents) \subseteq AllStored

\* One ingestion ended with a failed chunk write while another one has
\* put its chunks in the store.
C30_Witness ==
  \E p, q \in Calls :
    /\ p # q
    /\ proc[p].ipc = "done" /\ proc[p].outcome.kind = "raise"
    /\ Len(proc[p].writes) = 2 /\ ~proc[p].writes[2].ok
    /\ proc[q].ipc = "done" /\ proc[q].outcome.kind = "return"
    /\ Range(proc[q].writes[2].records) # {}
    /\ Range(proc[q].writes[2].records) \subseteq AllStored

\* Positions of the result that hold record r.
PositionsOf(r) == { p \in 1..Len(result) : result[p].doc.rec = r }

\* C28: ingestion is not idempotent: two runs of process_document on the
\* same file that both return delete and overwrite nothing: every record of
\* the first run stays in the store and the second run adds, for each
\* document-level (summary) record and each chunk record of the first, a
\* second record with the same source and text; and a retrieval makes a
\* fine search for every coarse hit of a source, so that a chunk both
\* searches return is in the result once per coarse hit.
C28_NotIdempotent ==
  /\ (proc[1].outcome.kind = "return" /\ proc[2].outcome.kind = "return") =>
        LET d1 == proc[1].writes[1].records
            c1 == proc[1].writes[2].records
            d2 == proc[2].writes[1].records
            c2 == proc[2].writes[2].records
        IN /\ Range(d1) \cup Range(c1) \cup Range(d2) \cup Range(c2) \subseteq store[MockCollection]
           /\ Len(d2) = Len(d1) /\ Len(c2) = Len(c1)
           /\ \A k \in 1..Len(d1) :
                 /\ d2[k] # d1[k]
                 /\ d2[k].source = d1[k].source /\ d2[k].text = d1[k].text /\ d2[k].len = d1[k].len
           /\ \A j \in 1..Len(c1) :
                 /\ c2[j] # c1[j]
                 /\ c2[j].source = c1[j].source /\ c2[j].text = c1[j].text /\ c2[j].len = c1[j].len
           /\ Cardinality({ r \in store[MockCollection] : r.source = "uploads/test.txt" })
                 = 2 * (Len(d1) + Len(c1))
  /\ (pc = "done" /\ mode = "scored") =>
        \A j1, j2 \in 1..Len(summaries) :
           (/\ j1 < j2 /\ DocId(summaries[j1]) = DocId(summaries[j2])
            /\ (variant = "legacy" \/ DocId(summaries[j1]) \notin {NoneVal, ""})) =>
              /\ fineLog[j1].searched /\ fineLog[j2].searched
              /\ \A a \in 1..Len(fineLog[j1].hits), b \in 1..Len(fineLog[j2].hits) :
                    fineLog[j1].hits[a].doc.rec = fineLog[j2].hits[b].doc.rec =>
                       Cardinality(PositionsOf(fineLog[j1].hits[a].doc.rec)) >= 2

\* The two runs were retrieved from: both document-level records of the file
\* were coarse hits and one chunk record is in the result twice.
C28_Witness ==
  /\ pc = "done" /\ variant = "legacy"
  /\ proc[1].outcome.kind = "return" /\ proc[2].outcome.kind = "return"
  /\ Len(summaries) = 2
  /\ {summaries[1].doc.rec.id, summaries[2].doc.rec.id} = {101, 201}
  /\ Len(proc[1].writes[2].records) = 3
  /\ \E r \in Range(proc[1].writes[2].records) : Cardinality(PositionsOf(r)) = 2

\* A metadata retrieval over a store that holds two summaries of one source
\* returned a chunk of that source twice.
ReingestedSeedsRetrievedTwice ==
  /\ pc = "done" /\ variant = "metadata" /\ mode = "scored"
  /\ Len(summaries) = 2
  /\ {summaries[1].doc.rec.id, summaries[2].doc.rec.id} = {1, 3}
  /\ \E r \in ChunkRecords : Cardinality(PositionsOf(r)) = 2

\* C29: query_documents clamps k into 1..20, passes n_docs = max(2, k // 3)
\* and n_chunks_per_doc = max(3, k // n_docs), which lies in 3..5, to the
\* retriever, and renders at most k entries.
C29_AtMostK ==
  /\ request.phase \in {"retrieving", "empty", "rendered"} =>
        /\ request.k \in 1..20
        /\ n_docs = MaxOf(2, request.k \div 3)
        /\ n_chunks = MaxOf(3, request.k \div n_docs)
        /\ n_chunks \in 3..5
  /\ request.phase = "rendered" => request.rendered <= request.k

\* The sizes handed to the retriever are the ones computed from the clamped
\* k, and what is rendered is what the retriever returned.
QuerySizes ==
  /\ request.phase \in {"retrieving", "empty", "rendered"} =>
        /\ request.k \in 1..20
        /\ n_docs = MaxOf(2, request.k \div 3)
        /\ n_chunks = MaxOf(3, request.k \div n_docs)
        /\ n_chunks \in 3..4
  /\ request.phase = "rendered" =>
        /\ request.rendered = Len(result)
        /\ request.rendered <= n_docs * n_chunks

\* A torn answer of reconstruct_document: its first search ran on a store
\* without the summary, its second on the store after summary and chunk had
\* been added.
ReconstructTorn ==
  /\ recon.called /\ recon.source_id = "a.txt"
  /\ recon.summary = <<>> /\ recon.total_chunks = 1
  /\ \E r \in store[recon.store] : r.type = "summary" /\ r.source = "a.txt"

\* A task ran while a later upload of the same name had truncated the file
\* and validate_file found it empty.
TaskValidatedTruncatedFile ==
  \E p \in Calls :
    /\ proc[p].ipc = "done" /\ proc[p].file.path = "uploads/test.txt"
    /\ proc[p].outcome.kind = "raise" /\ proc[p].file.size = 0

\* A task validated the full file, and the loader read it after a later
\* upload of the same name had truncated it: one empty document is stored
\* and no chunk.
TaskLoadedTruncatedFile ==
  \E p \in Calls :
    /\ proc[p].ipc = "done" /\ proc[p].file.path = "uploads/test.txt"
    /\ proc[p].outcome.kind = "return" /\ proc[p].file.size = 1200
    /\ Len(proc[p].documents) = 1 /\ proc[p].documents[1].len = 0
    /\ Len(proc[p].writes) = 2 /\ proc[p].writes[2].records = <<>>

\* A task read the size of the full file and sniffed the file after a later
\* upload of the same name had truncated it: the call returns the size of
\* the one and the MIME type of the other.
TaskSniffedTruncatedFile ==
  \E p \in Calls :
    /\ proc[p].ipc = "done" /\ proc[p].outcome.kind = "return"
    /\ proc[p].file.size = 1200 /\ proc[p].file.sniff = "inode/x-empty"
    /\ validate_file(proc[p].file).mime_type = "inode/x-empty"
    /\ Len(proc[p].documents) = 1 /\ proc[p].documents[1].len = 0

\* A search answered an ingested record, which has a large id, before a
\* seeded record that is farther from the query.
RankedByDistance ==
  /\ pc = "done" /\ variant = "legacy" /\ query = "q2"
  /\ Len(summaries) >= 2
  /\ summaries[1].doc.rec.id = 101 /\ summaries[2].doc.rec.id = 1

\* A task read the size of the full file, and a later upload of the same
\* name truncated it between the two reads of mime.from_file: the call
\* returns the size of the full file and the MIME type of empty data.
TaskSniffTornBetweenReads ==
  \E p \in Calls :
    /\ proc[p].ipc = "done" /\ proc[p].outcome.kind = "return"
    /\ proc[p].file.size = 1200 /\ proc[p].file.sniff = "application/x-empty"
    /\ validate_file(proc[p].file).mime_type = "application/x-empty"

====
